---- MODULE Spec2Model ----
(***************************************************************************)
(* The two sample CGI servers of cgi-process-pool:                         *)
(*   search.c  (Query Responder, parameter "q=",    default "default")     *)
(*   auth.c    (Token Issuer,    parameter "user=", default "anonymous")   *)
(* Bytes are integers 0..255; a C array is a sequence of bytes whose       *)
(* trailing zero bytes are left implicit (At reads them as 0).             *)
(***************************************************************************)
EXTENDS Integers, Sequences, FiniteSets, TLC

VARIABLES
    prog,       \* which program runs: "search" or "auth"
    pid,        \* getpid()
    pc,         \* position of main: the next statement to execute
    handlers,   \* signals for which handle_sigterm is installed
    exitStatus, \* -1 while running or killed, else the status given to exit()
    signalled,  \* "none", or the signal delivered to the process
    sigAt,      \* position of main when that signal was delivered
    log,        \* lines printed to stdout / stderr, as records
    rng,        \* state of the C library's pseudo-random generator (auth.c)
    randCalls,  \* number of rand() calls made so far
    conns,      \* number of successful accept() calls
    nfail,      \* number of failed accept() calls
    open,       \* number of client sockets open
    ops,        \* system calls / steps made for the current connection
    arriving,   \* bytes the client of the current connection delivers
    rx,         \* bytes recv() stored for the current connection
    buffer,     \* char buffer[1024] (stack memory, survives the loop body)
    query,      \* char query[256] / char user[256]
    rdHi,       \* highest index of buffer read by the extraction
    wrHi,       \* highest index of query written by the extraction
    token,      \* char token[33] (auth.c)
    body,       \* the C string in char body[512] for the current connection
    sent,       \* bytes handed to send() for the current connection
    served      \* the values of the responses handed to send() so far

vars == <<prog, pid, pc, handlers, exitStatus, signalled, sigAt, log, rng, randCalls,
          conns, nfail, open, ops, arriving, rx, buffer, query, rdHi, wrHi,
          token, body, sent, served>>

---------------------------------------------------------------------------
(* Bounds of the model *)

MaxConns == 2        \* successful accepts explored
MaxAcceptFail == 2   \* failed accepts explored
MaxFrags == 2        \* fragments in a generated request (SpecPure)

---------------------------------------------------------------------------
(* Program constants *)

BUFFER_SIZE == 1024     \* char buffer[1024]
VALUE_SIZE == 256       \* char query[256], char user[256]
BODY_SIZE == 512        \* char body[512]
RESPONSE_SIZE == 1024   \* char response[1024]
TOKEN_SIZE == 33        \* char token[33]
EXPIRY == 3600          \* time(NULL) + 3600

NUL == 0
SP == 32
AMP == 38

GET_MARK == <<71, 69, 84, 32>>                                   \* "GET "
Q_MARK == <<113, 61>>                                            \* "q="
USER_MARK == <<117, 115, 101, 114, 61>>                          \* "user="
DEFAULT_Q == <<100, 101, 102, 97, 117, 108, 116>>                \* "default"
DEFAULT_USER == <<97, 110, 111, 110, 121, 109, 111, 117, 115>>   \* "anonymous"

\* "abcdefghijklmnopqrstuvwxyzABCDEFGHIJKLMNOPQRSTUVWXYZ0123456789" and its
\* terminating zero byte: sizeof(charset) = 63
charset ==
    <<97, 98, 99, 100, 101, 102, 103, 104, 105, 106, 107, 108, 109, 110, 111,
      112, 113, 114, 115, 116, 117, 118, 119, 120, 121, 122, 65, 66, 67, 68,
      69, 70, 71, 72, 73, 74, 75, 76, 77, 78, 79, 80, 81, 82, 83, 84, 85, 86,
      87, 88, 89, 90, 48, 49, 50, 51, 52, 53, 54, 55, 56, 57, 0>>

\* {"query": "
SEARCH_FMT_1 == <<123, 34, 113, 117, 101, 114, 121, 34, 58, 32, 34>>
\* ", "results": ["result1", "result2", "result3"], "pid":
SEARCH_FMT_2 ==
    <<34, 44, 32, 34, 114, 101, 115, 117, 108, 116, 115, 34, 58, 32, 91, 34,
      114, 101, 115, 117, 108, 116, 49, 34, 44, 32, 34, 114, 101, 115, 117,
      108, 116, 50, 34, 44, 32, 34, 114, 101, 115, 117, 108, 116, 51, 34, 93,
      44, 32, 34, 112, 105, 100, 34, 58, 32>>
\* , "timestamp":
SEARCH_FMT_3 == <<44, 32, 34, 116, 105, 109, 101, 115, 116, 97, 109, 112, 34, 58, 32>>
\* {"user": "
AUTH_FMT_1 == <<123, 34, 117, 115, 101, 114, 34, 58, 32, 34>>
\* ", "token": "
AUTH_FMT_2 == <<34, 44, 32, 34, 116, 111, 107, 101, 110, 34, 58, 32, 34>>
\* ", "pid":
AUTH_FMT_3 == <<34, 44, 32, 34, 112, 105, 100, 34, 58, 32>>
\* , "expires":
AUTH_FMT_4 == <<44, 32, 34, 101, 120, 112, 105, 114, 101, 115, 34, 58, 32>>
\* }
FMT_END == <<125>>
\* HTTP/1.1 200 OK\r\nContent-Type: application/json\r\nContent-Length:
HTTP_FMT_1 ==
    <<72, 84, 84, 80, 47, 49, 46, 49, 32, 50, 48, 48, 32, 79, 75, 13, 10, 67,
      111, 110, 116, 101, 110, 116, 45, 84, 121, 112, 101, 58, 32, 97, 112,
      112, 108, 105, 99, 97, 116, 105, 111, 110, 47, 106, 115, 111, 110, 13,
      10, 67, 111, 110, 116, 101, 110, 116, 45, 76, 101, 110, 103, 116, 104,
      58, 32>>
\* \r\nConnection: close\r\n\r\n
HTTP_FMT_2 ==
    <<13, 10, 67, 111, 110, 110, 101, 99, 116, 105, 111, 110, 58, 32, 99, 108,
      111, 115, 101, 13, 10, 13, 10>>

---------------------------------------------------------------------------
(* C strings and the C library *)

MinOf(S) == CHOOSE x \in S : \A y \in S : x <= y
MaxOf(S) == CHOOSE x \in S : \A y \in S : x >= y
Smaller(a, b) == IF a <= b THEN a ELSE b
Larger(a, b) == IF a >= b THEN a ELSE b

\* a[i], 0-based
At(a, i) == IF i + 1 <= Len(a) THEN a[i + 1] ELSE NUL

Take(s, n) == SubSeq(s, 1, Smaller(n, Len(s)))
Drop(s, n) == SubSeq(s, n + 1, Len(s))

\* index of the first zero byte of a at or after from
NulIdx(a, from) ==
    LET Z == {i \in from .. Len(a) - 1 : a[i + 1] = NUL}
    IN  IF Z = {} THEN Larger(from, Len(a)) ELSE MinOf(Z)

\* the C string held in array a
CStr(a) == SubSeq(a, 1, NulIdx(a, 0))

\* strstr(a + from, pat): index of the first occurrence of pat in the C string
\* starting at a[from], or -1 (NULL)
strstr(a, from, pat) ==
    LET end == NulIdx(a, from)
        M == {i \in from .. end - Len(pat) :
                 \A j \in 1 .. Len(pat) : a[i + j] = pat[j]}
    IN  IF M = {} THEN -1 ELSE MinOf(M)

RECURSIVE Dec(_)
\* "%d" / "%ld" of a non-negative number
Dec(n) == IF n < 10 THEN <<48 + n>> ELSE Dec(n \div 10) \o <<48 + (n % 10)>>

\* snprintf(dst, size, ...): the C string left in dst when the format expands
\* to full
snprintf(size, full) == Take(full, size - 1)

RECURSIVE Xor(_, _)
\* a ^ b on non-negative numbers
Xor(a, b) ==
    IF a = 0 THEN b
    ELSE IF b = 0 THEN a
    ELSE 2 * Xor(a \div 2, b \div 2) + (((a % 2) + (b % 2)) % 2)

\* rand(): the C library's generator, as a linear congruential generator of
\* the shape of the C standard's sample implementation (state cut to 16 bits)
RandStep(s) == (s * 75 + 74) % 65537
RandOut(s) == s % 32768
srand(seed) == seed % 65536

---------------------------------------------------------------------------
(* The programs *)

Progs == {"search", "auth"}
Signals == {"SIGINT", "SIGTERM"}
Pids == {7, 4194304}
Times == {999999999, 2147480047}

\* the field marker searched after "GET "
Marker(p) == IF p = "search" THEN Q_MARK ELSE USER_MARK

\* char query[256] = "default";  char user[256] = "anonymous";
ValueDecl(p, stale) == IF p = "search" THEN DEFAULT_Q ELSE DEFAULT_USER

\* char buffer[1024] = {0};
BufferUninitialised(stale) == stale
BufferDecl(stale) == <<>>

\* recv(client_socket, buffer, sizeof(buffer) - 1, 0)
RecvCap == BUFFER_SIZE - 1

\* bytes new stored at the start of array old
Overlay(old, new) == new \o Drop(old, Len(new))

CopyWithoutAmp(c, i) == c # NUL /\ c # SP /\ i < VALUE_SIZE - 1
CopyOneTooMany(c, i) == c # NUL /\ c # SP /\ c # AMP /\ i <= VALUE_SIZE - 1

\* while (q_param[i] && q_param[i] != ' ' && q_param[i] != '&' && i < 255)
CopyGoesOn(c, i) == c # NUL /\ c # SP /\ c # AMP /\ i < VALUE_SIZE - 1

RECURSIVE CopyCount(_, _, _, _)
\* the value of i when the copy loop ends: the least i in lo .. hi at which
\* the loop condition fails (found by halving the range)
CopyCount(buf, p, lo, hi) ==
    IF lo >= hi THEN lo
    ELSE LET mid == (lo + hi) \div 2
         IN  IF \E i \in lo .. mid : ~CopyGoesOn(At(buf, p + i), i)
             THEN CopyCount(buf, p, lo, mid)
             ELSE CopyCount(buf, p, mid + 1, hi)

FindMarkerAnywhere(buf, mark) == strstr(buf, 0, mark)

\* if (query_start) { q_param = strstr(query_start, "q="); ... }
FindMarker(buf, mark) ==
    LET g == strstr(buf, 0, GET_MARK)
    IN  IF g = -1 THEN -1 ELSE strstr(buf, g, mark)

\* the extraction of main: the value array, and the highest indices read
\* from buf and written to the value array
Extract(buf, mark, decl) ==
    LET m == FindMarker(buf, mark)
        p == m + Len(mark)
        n == CopyCount(buf, p, 0, BUFFER_SIZE)
    IN  IF m = -1
        THEN [value |-> decl, rd |-> NulIdx(buf, 0), wr |-> -1]
        ELSE [value |-> [k \in 1 .. Larger(Len(decl), n + 1) |->
                            IF k <= n THEN At(buf, p + k - 1)
                            ELSE IF k = n + 1 THEN NUL
                            ELSE At(decl, k - 1)],
              rd |-> p + n,
              wr |-> n]

\* charset[rand() % (sizeof(charset) - 1)]
CharsetModulusWithNul == Len(charset)
CharsetModulus == Len(charset) - 1

RECURSIVE TokenLoop(_, _, _, _)
\* for (int i = 0; i < len - 1; i++) token[i] = charset[rand() % ...];
TokenLoop(tok, s, i, len) ==
    IF i < len - 1
    THEN LET s1 == RandStep(s)
         IN  TokenLoop(Append(tok, charset[(RandOut(s1) % CharsetModulus) + 1]),
                       s1, i + 1, len)
    ELSE [token |-> Append(tok, NUL), rng |-> s, calls |-> i]

generate_token(s, len) == TokenLoop(<<>>, s, 0, len)

\* the expansion of the body format
BodyFormat(p, value, tok, id, now) ==
    IF p = "search"
    THEN SEARCH_FMT_1 \o CStr(value) \o SEARCH_FMT_2 \o Dec(id)
         \o SEARCH_FMT_3 \o Dec(now) \o FMT_END
    ELSE AUTH_FMT_1 \o CStr(value) \o AUTH_FMT_2 \o CStr(tok) \o AUTH_FMT_3
         \o Dec(id) \o AUTH_FMT_4 \o Dec(now + EXPIRY) \o FMT_END

\* snprintf(body, sizeof(body), ...)
MakeBody(p, value, tok, id, now) ==
    snprintf(BODY_SIZE, BodyFormat(p, value, tok, id, now))

MakeResponseSizeofBody(b) ==
    snprintf(RESPONSE_SIZE, HTTP_FMT_1 \o Dec(BODY_SIZE) \o HTTP_FMT_2 \o b)

\* snprintf(response, sizeof(response), ..., strlen(body), body)
MakeResponse(b) ==
    snprintf(RESPONSE_SIZE, HTTP_FMT_1 \o Dec(Len(b)) \o HTTP_FMT_2 \o b)

---------------------------------------------------------------------------
(* Requests *)

\* n bytes c
Fill(c, n) == [k \in 1 .. n |-> c]

\* "GET /search?q=hello HTTP/1.1\r\n\r\n"
HELLO_REQUEST ==
    <<71, 69, 84, 32, 47, 115, 101, 97, 114, 99, 104, 63, 113, 61, 104, 101,
      108, 108, 111, 32, 72, 84, 84, 80, 47, 49, 46, 49, 13, 10, 13, 10>>
HELLO == <<104, 101, 108, 108, 111>>

\* what the clients of the server specification send
ServerRequests ==
    { <<>>,
      HELLO_REQUEST,
      GET_MARK \o <<47, 63>> \o USER_MARK \o <<98, 111, 98>> \o <<AMP>> \o Q_MARK \o <<120>>,
      GET_MARK \o <<47>> \o <<SP>> \o <<72, 10>> \o Q_MARK \o <<122>> \o USER_MARK \o <<121>>,
      <<80, 79, 83, 84, 32>> \o Q_MARK \o <<97>> \o USER_MARK \o <<97>>,
      GET_MARK \o USER_MARK \o Q_MARK \o <<97, NUL, 98>>,
      Q_MARK \o <<97>> \o <<SP>> \o GET_MARK,
      GET_MARK \o Q_MARK \o USER_MARK \o Fill(99, 12) }

---------------------------------------------------------------------------
(* main *)

Running == pc \notin {"exited", "killed"}

Line(kind) == [kind |-> kind, pid |-> pid]

\* exit(status) after printing a line
Exit(kind, status) ==
    /\ log' = Append(log, Line(kind))
    /\ exitStatus' = status
    /\ pc' = "exited"

\* if (argc != 2) { fprintf(stderr, "Usage..."); exit(1); }
CheckArgs ==
    /\ pc = "args"
    /\ \E argc \in 1 .. 3 :
          IF argc # 2
          THEN Exit("usage", 1)
          ELSE pc' = "sigterm" /\ UNCHANGED <<log, exitStatus>>
    /\ UNCHANGED <<prog, pid, handlers, signalled, sigAt, rng, randCalls, conns,
                   nfail, open, ops, arriving, rx, buffer, query, rdHi, wrHi,
                   token, body, sent, served>>

\* signal(SIGTERM, handle_sigterm);
InstallSigterm ==
    /\ pc = "sigterm"
    /\ handlers' = handlers \cup {"SIGTERM"}
    /\ pc' = "sigint"
    /\ UNCHANGED <<prog, pid, exitStatus, signalled, sigAt, log, rng, randCalls,
                   conns, nfail, open, ops, arriving, rx, buffer, query, rdHi,
                   wrHi, token, body, sent, served>>

WithoutSigint(h) == h

\* the handlers installed after signal(SIGINT, handle_sigterm)
WithSigint(h) == h \cup {"SIGINT"}

\* signal(SIGINT, handle_sigterm);
InstallSigint ==
    /\ pc = "sigint"
    /\ handlers' = WithSigint(handlers)
    /\ pc' = IF prog = "auth" THEN "srand" ELSE "socket"
    /\ UNCHANGED <<prog, pid, exitStatus, signalled, sigAt, log, rng, randCalls,
                   conns, nfail, open, ops, arriving, rx, buffer, query, rdHi,
                   wrHi, token, body, sent, served>>

\* srand(time(NULL) ^ getpid());   (auth.c)
Srand ==
    /\ pc = "srand"
    /\ \E now \in Times : rng' = srand(Xor(now, pid))
    /\ pc' = "socket"
    /\ UNCHANGED <<prog, pid, handlers, exitStatus, signalled, sigAt, log,
                   randCalls, conns, nfail, open, ops, arriving, rx, buffer,
                   query, rdHi, wrHi, token, body, sent, served>>

\* one of socket / setsockopt / bind / listen: on failure perror and exit(1)
Setup(at, next) ==
    /\ pc = at
    /\ \/ Exit("perror", 1)
       \/ /\ pc' = next
          /\ log' = IF next = "accept" THEN Append(log, Line("listening")) ELSE log
          /\ UNCHANGED exitStatus
    /\ UNCHANGED <<prog, pid, handlers, signalled, sigAt, rng, randCalls, conns,
                   nfail, open, ops, arriving, rx, buffer, query, rdHi, wrHi,
                   token, body, sent, served>>

Socket == Setup("socket", "setsockopt")
Setsockopt == Setup("setsockopt", "bind")
Bind == Setup("bind", "listen")
Listen == Setup("listen", "accept")

FallThroughToRecv == "recv"

\* where main goes on after accept() returned a negative value
AfterFailedAccept == "accept"

\* int client_socket = accept(...); if (client_socket < 0) continue;
Accept(Requests) ==
    /\ pc = "accept"
    /\ \/ /\ conns < MaxConns
          /\ \E r \in Requests : arriving' = r
          /\ conns' = conns + 1
          /\ open' = open + 1
          /\ ops' = <<"accept">>
          /\ rx' = <<>>
          /\ body' = <<>>
          /\ sent' = <<>>
          /\ pc' = "recv"
          /\ UNCHANGED nfail
       \/ /\ nfail < MaxAcceptFail
          /\ nfail' = nfail + 1
          /\ pc' = AfterFailedAccept
          /\ UNCHANGED <<conns, open, ops, arriving, rx, body, sent>>
    /\ UNCHANGED <<prog, pid, handlers, exitStatus, signalled, sigAt, log, rng,
                   randCalls, buffer, query, rdHi, wrHi, token, served>>

\* char buffer[1024] = {0}; recv(client_socket, buffer, sizeof(buffer) - 1, 0);
\* recv stores the bytes that arrived, at most RecvCap of them, or none (no
\* data, or an error); its return value is not read
Recv ==
    /\ pc = "recv"
    /\ \E got \in {Take(arriving, RecvCap), <<>>} :
          /\ rx' = got
          /\ buffer' = Overlay(BufferDecl(buffer), got)
    /\ arriving' = <<>>
    /\ ops' = Append(ops, "recv")
    /\ pc' = "extract"
    /\ UNCHANGED <<prog, pid, handlers, exitStatus, signalled, sigAt, log, rng,
                   randCalls, conns, nfail, open, query, rdHi, wrHi, token,
                   body, sent, served>>

\* lines 85-99 of search.c, 97-111 of auth.c
ExtractValue ==
    /\ pc = "extract"
    /\ LET e == Extract(buffer, Marker(prog), ValueDecl(prog, query))
       IN  /\ query' = e.value
           /\ rdHi' = e.rd
           /\ wrHi' = e.wr
    /\ ops' = Append(ops, "extract")
    /\ pc' = "respond"
    /\ UNCHANGED <<prog, pid, handlers, exitStatus, signalled, sigAt, log, rng,
                   randCalls, conns, nfail, open, arriving, rx, buffer, token,
                   body, sent, served>>

\* send_response(client_socket, query)
SendResponse ==
    /\ pc = "respond"
    /\ \E now \in Times :
          LET g == IF prog = "auth"
                   THEN generate_token(rng, TOKEN_SIZE)
                   ELSE [token |-> token, rng |-> rng, calls |-> 0]
              b == MakeBody(prog, query, g.token, pid, now)
          IN  /\ token' = g.token
              /\ rng' = g.rng
              /\ randCalls' = randCalls + g.calls
              /\ body' = b
              /\ sent' = MakeResponse(b)
    /\ served' = Append(served, CStr(query))
    /\ ops' = Append(ops, "send")
    /\ pc' = "close"
    /\ UNCHANGED <<prog, pid, handlers, exitStatus, signalled, sigAt, log, conns,
                   nfail, open, arriving, rx, buffer, query, rdHi, wrHi>>

NotClosed(n) == n

\* the number of open client sockets after close(client_socket)
Closed(n) == n - 1

\* close(client_socket);
Close ==
    /\ pc = "close"
    /\ open' = Closed(open)
    /\ ops' = Append(ops, "close")
    /\ pc' = "accept"
    /\ UNCHANGED <<prog, pid, handlers, exitStatus, signalled, sigAt, log, rng,
                   randCalls, conns, nfail, arriving, rx, buffer, query, rdHi,
                   wrHi, token, body, sent, served>>

\* handle_sigterm: printf("... process %d shutting down\n", getpid()); exit(0);
handle_sigterm == Exit("shutdown", 0)

\* delivery of SIGINT or SIGTERM: the handler if one is installed, else the
\* default action, which kills the process
Signal ==
    /\ Running
    /\ \E sig \in Signals :
          /\ signalled' = sig
          /\ sigAt' = pc
          /\ IF sig \in handlers
             THEN handle_sigterm
             ELSE pc' = "killed" /\ UNCHANGED <<log, exitStatus>>
    /\ UNCHANGED <<prog, pid, handlers, rng, randCalls, conns, nfail, open, ops,
                   arriving, rx, buffer, query, rdHi, wrHi, token, body, sent,
                   served>>

---------------------------------------------------------------------------
(* The servers from their start *)

Init ==
    /\ prog \in Progs
    /\ pid \in Pids
    /\ pc = "args"
    /\ handlers = {}
    /\ exitStatus = -1
    /\ signalled = "none"
    /\ sigAt = "none"
    /\ log = <<>>
    /\ rng = 1
    /\ randCalls = 0
    /\ conns = 0
    /\ nfail = 0
    /\ open = 0
    /\ ops = <<>>
    /\ arriving = <<>>
    /\ rx = <<>>
    /\ buffer = <<>>
    /\ query = <<>>
    /\ rdHi = -1
    /\ wrHi = -1
    /\ token = <<>>
    /\ body = <<>>
    /\ sent = <<>>
    /\ served = <<>>

Next ==
    \/ CheckArgs
    \/ InstallSigterm
    \/ InstallSigint
    \/ Srand
    \/ Socket
    \/ Setsockopt
    \/ Bind
    \/ Listen
    \/ Accept(ServerRequests)
    \/ Recv
    \/ ExtractValue
    \/ SendResponse
    \/ Close
    \/ Signal

Spec == Init /\ [][Next]_vars

---------------------------------------------------------------------------
(* One connection, for every generated request *)

\* the pieces a generated request is made of
Frags(p) == {GET_MARK, Marker(p), <<SP>>, <<AMP>>, <<97>>, <<10>>, <<NUL>>}

FragSeqs(p) == UNION {[1 .. n -> Frags(p)] : n \in 0 .. MaxFrags}

RECURSIVE Flat(_)
Flat(fs) == IF fs = <<>> THEN <<>> ELSE Head(fs) \o Flat(Tail(fs))

\* what surrounds the pieces: bytes before them, a value after them, and
\* bytes after the value
Shapes ==
    { [pre |-> <<>>, val |-> <<>>, post |-> <<>>],
      [pre |-> <<>>, val |-> Fill(98, VALUE_SIZE - 1), post |-> <<>>],
      [pre |-> <<>>, val |-> Fill(98, VALUE_SIZE - 1), post |-> <<AMP, 99>>],
      [pre |-> <<>>, val |-> Fill(98, VALUE_SIZE), post |-> <<>>],
      [pre |-> <<>>, val |-> <<97, NUL>> \o Fill(98, VALUE_SIZE - 1), post |-> <<>>],
      [pre |-> <<NUL>>, val |-> <<>>, post |-> <<>>],
      [pre |-> Fill(120, BUFFER_SIZE - 12), val |-> <<>>, post |-> <<>>],
      [pre |-> Fill(120, BUFFER_SIZE - 12), val |-> Fill(98, VALUE_SIZE), post |-> <<>>],
      [pre |-> GET_MARK \o <<47, 10>>, val |-> <<97>>, post |-> <<AMP, 98, SP>>] }

GeneratedRequests(p) ==
    {HELLO_REQUEST} \cup
    {s.pre \o Flat(fs) \o s.val \o s.post : s \in Shapes, fs \in FragSeqs(p)}

\* a server that has just accepted its first connection
InitPure ==
    /\ prog \in Progs
    /\ pid = MaxOf(Pids)   \* the longest process identifier
    /\ pc = "recv"
    /\ handlers = Signals
    /\ exitStatus = -1
    /\ signalled = "none"
    /\ sigAt = "none"
    /\ log = <<Line("listening")>>
    /\ rng = IF prog = "auth" THEN srand(Xor(MinOf(Times), pid)) ELSE 1
    /\ randCalls = 0
    /\ conns = 1
    /\ nfail = 0
    /\ open = 1
    /\ ops = <<"accept">>
    /\ arriving \in GeneratedRequests(prog)
    /\ rx = <<>>
    /\ buffer = <<>>
    /\ query = <<>>
    /\ rdHi = -1
    /\ wrHi = -1
    /\ token = <<>>
    /\ body = <<>>
    /\ sent = <<>>
    /\ served = <<>>

NextPure ==
    \/ Recv
    \/ ExtractValue
    \/ SendResponse
    \/ Close

SpecPure == InitPure /\ [][NextPure]_vars

---------------------------------------------------------------------------
(* What the properties speak of: the bytes on the wire, read as plain byte *)
(* sequences (a zero byte is a byte like any other)                        *)

\* the connection's value has been extracted / its response handed to send
Extracted == Len(ops) >= 3
Responded == Len(ops) >= 4

DefaultOf(p) == IF p = "search" THEN DEFAULT_Q ELSE DEFAULT_USER

\* 1-based position of the first occurrence of pat in s, 0 if there is none
Find(s, pat) ==
    LET M == {i \in 1 .. Len(s) - Len(pat) + 1 :
                 \A j \in 1 .. Len(pat) : s[i + j - 1] = pat[j]}
    IN  IF M = {} THEN 0 ELSE MinOf(M)

Contains(s, pat) == Find(s, pat) # 0

\* the bytes of s before its first byte in stop (all of s if there is none)
Before(s, stop) ==
    LET S == {i \in 1 .. Len(s) : s[i] \in stop}
    IN  IF S = {} THEN s ELSE SubSeq(s, 1, MinOf(S) - 1)

\* the bytes of data from its first "GET " on (empty if there is none)
FromGet(data) ==
    IF Contains(data, GET_MARK) THEN Drop(data, Find(data, GET_MARK) - 1) ELSE <<>>

\* data holds "GET " and, at or after it, the marker
HasMarker(data, mark) == Contains(FromGet(data), mark)

\* the bytes that follow the first marker at or after "GET "
AfterMarker(data, mark) ==
    Drop(FromGet(data), Find(FromGet(data), mark) + Len(mark) - 1)

\* the value the marker introduces: the run after it up to a space or '&',
\* cut to 255 bytes
ValueIn(data, mark) == Take(Before(AfterMarker(data, mark), {SP, AMP}), VALUE_SIZE - 1)

\* the received bytes as text: what comes before the first zero byte
Text(data) == Before(data, {NUL})

CRLF_CRLF == <<13, 10, 13, 10>>
CONTENT_LENGTH == <<67, 111, 110, 116, 101, 110, 116, 45, 76, 101, 110, 103, 116, 104, 58, 32>>
Digits == 48 .. 57
Alnum == (97 .. 122) \cup (65 .. 90) \cup Digits

\* the body of a response: what follows the first blank line
BodyOf(resp) == Drop(resp, Find(resp, CRLF_CRLF) + Len(CRLF_CRLF) - 1)

RECURSIVE Number(_)
\* the number a digit string denotes
Number(ds) ==
    IF ds = <<>> THEN 0
    ELSE 10 * Number(SubSeq(ds, 1, Len(ds) - 1)) + (ds[Len(ds)] - 48)

\* the number in the Content-Length header of a response
ContentLengthOf(resp) ==
    LET rest == Drop(resp, Find(resp, CONTENT_LENGTH) + Len(CONTENT_LENGTH) - 1)
    IN  Number(Before(rest, (0 .. 255) \ Digits))

IsPrefix(a, b) == Len(a) <= Len(b) /\ SubSeq(b, 1, Len(a)) = a

\* the JSON body opens with the value field holding v
EmbedsValue(resp, v) ==
    IF prog = "search"
    THEN IsPrefix(SEARCH_FMT_1 \o v \o SEARCH_FMT_2, BodyOf(resp))
    ELSE IsPrefix(AUTH_FMT_1 \o v \o AUTH_FMT_2, BodyOf(resp))

---------------------------------------------------------------------------
(* Properties *)

\* C1 as stated: whenever the received bytes hold "GET " and, at or after
\* it, the marker, the extracted value is the run of bytes after the first
\* such marker, up to the first space, the first '&', the end of the
\* received data or 255 bytes.
C1_ValueIsRunAfterMarker ==
    (Extracted /\ HasMarker(rx, Marker(prog)))
        => CStr(query) = ValueIn(rx, Marker(prog))

\* C1 amended: the same, with the received bytes read as text that ends at
\* the first zero byte: markers are looked for before it only, and it ends
\* the value as well; the request "GET /search?q=hello HTTP/1.1\r\n\r\n"
\* gives the query value "hello", in the value array and in the response.
C1_ValueIsRunAfterMarkerInText ==
    /\ (Extracted /\ HasMarker(Text(rx), Marker(prog)))
          => CStr(query) = ValueIn(Text(rx), Marker(prog))
    /\ (Extracted /\ prog = "search" /\ rx = HELLO_REQUEST)
          => CStr(query) = HELLO
    /\ (Responded /\ prog = "search" /\ rx = HELLO_REQUEST)
          => EmbedsValue(sent, HELLO)

C1_Witness ==
    /\ Responded
    /\ rx = HELLO_REQUEST
    /\ prog = "search"
    /\ EmbedsValue(sent, HELLO)

\* C2: when the received bytes hold no "GET ", or no marker at or after it
\* (also when recv stored nothing), the value in the response is the fixed
\* default.
C2_DefaultWithoutMarker ==
    /\ (Extracted /\ ~HasMarker(rx, Marker(prog)))
          => CStr(query) = DefaultOf(prog)
    /\ (Responded /\ ~HasMarker(rx, Marker(prog)))
          => EmbedsValue(sent, DefaultOf(prog))

C2_Witness ==
    /\ Responded
    /\ Contains(rx, Marker(prog))
    /\ ~Contains(rx, GET_MARK)
    /\ EmbedsValue(sent, DefaultOf(prog))

\* the first line of the request: the received bytes up to the first line
\* break
FirstLine(data) == Before(data, {10})

\* C8 as stated: a request to the Query Responder whose first line holds no
\* "q=" is answered with the query value "default", whatever follows the
\* first line.
C8_ValueFromRequestLineOnly ==
    (prog = "search" /\ Extracted /\ ~Contains(FirstLine(rx), Q_MARK))
        => CStr(query) = DEFAULT_Q

\* C3: in every response handed to send, the number in the Content-Length
\* header is the length of the body that follows the blank line, and that
\* body is the whole of the body buffer's string.
C3_ContentLengthIsBodyLength ==
    Responded =>
        /\ ContentLengthOf(sent) = Len(BodyOf(sent))
        /\ BodyOf(sent) = body

C3_Witness ==
    /\ Responded
    /\ Len(CStr(query)) = VALUE_SIZE - 1
    /\ ContentLengthOf(sent) = Len(BodyOf(sent))
    /\ Len(BodyOf(sent)) > VALUE_SIZE

\* no index leaves its array, and neither snprintf cuts its output
NoOverrun ==
    /\ wrHi <= VALUE_SIZE - 1
    /\ rdHi <= BUFFER_SIZE - 1
    /\ Responded =>
          \E now \in Times :
             LET full == BodyFormat(prog, query, token, pid, now)
                 resp == HTTP_FMT_1 \o Dec(Len(full)) \o HTTP_FMT_2 \o full
             IN  /\ Len(full) <= BODY_SIZE - 1
                 /\ body = full
                 /\ Len(resp) <= RESPONSE_SIZE - 1
                 /\ sent = resp

\* the run after the marker up to a space or '&' is longer than 255 bytes
LongValue(data) ==
    /\ HasMarker(data, Marker(prog))
    /\ Len(Before(AfterMarker(data, Marker(prog)), {SP, AMP})) > VALUE_SIZE - 1

\* C4 as stated: when more than 255 bytes without a space or '&' follow the
\* marker, the value in the response is the first 255 of them, and nothing
\* is overrun.
C4_LongValueCutTo255 ==
    /\ NoOverrun
    /\ (Extracted /\ LongValue(rx))
          => CStr(query) = Take(AfterMarker(rx, Marker(prog)), VALUE_SIZE - 1)
    /\ (Responded /\ LongValue(rx))
          => EmbedsValue(sent, Take(AfterMarker(rx, Marker(prog)), VALUE_SIZE - 1))

\* C4 amended: when more than 255 bytes without a space, '&' or zero byte
\* follow the marker in the text before the first zero byte, the value in
\* the response is the first 255 of them, and nothing is overrun: the write
\* index stays within 0..255, reads stay at or before index 1023, the body
\* takes at most 511 bytes and the response at most 1023.
C4_LongTextValueCutTo255 ==
    /\ NoOverrun
    /\ (Extracted /\ LongValue(Text(rx)))
          => CStr(query) = Take(AfterMarker(Text(rx), Marker(prog)), VALUE_SIZE - 1)
    /\ (Responded /\ LongValue(Text(rx)))
          => EmbedsValue(sent, Take(AfterMarker(Text(rx), Marker(prog)), VALUE_SIZE - 1))

C4_Witness ==
    /\ Responded
    /\ LongValue(Text(rx))
    /\ wrHi = VALUE_SIZE - 1
    /\ Len(CStr(query)) = VALUE_SIZE - 1
    /\ EmbedsValue(sent, Fill(98, VALUE_SIZE - 1))

\* C5: in the Token Issuer the token of every response is 32 bytes long,
\* all of them letters or digits; every response costs 32 calls of rand, so
\* each has a token of its own making; and the token stands in the response.
C5_TokenIs32Alnum ==
    prog = "auth" =>
        /\ randCalls = (TOKEN_SIZE - 1) * Len(served)
        /\ Len(served) > 0 =>
              /\ Len(CStr(token)) = TOKEN_SIZE - 1
              /\ \A i \in 1 .. Len(CStr(token)) : token[i] \in Alnum
        /\ Responded =>
              IsPrefix(AUTH_FMT_1 \o CStr(query) \o AUTH_FMT_2 \o CStr(token)
                           \o AUTH_FMT_3,
                       BodyOf(sent))

C5_Witness ==
    /\ prog = "auth"
    /\ Len(served) = 2
    /\ Responded
    /\ Len(CStr(token)) = TOKEN_SIZE - 1
    /\ Len(BodyOf(sent)) > TOKEN_SIZE

HandlingOrder == <<"accept", "recv", "extract", "send", "close">>

\* C6: every accepted connection goes through recv, extraction, send and
\* close in that order, once each, before the next accept: never two client
\* sockets open, one send per accepted connection, and the socket closed
\* when main is back at accept.
C6_OneConnectionAtATime ==
    /\ open \in {0, 1}
    /\ IsPrefix(ops, HandlingOrder)
    /\ open = IF ops # <<>> /\ ops # HandlingOrder THEN 1 ELSE 0
    /\ Len(served) = IF Len(ops) \in {1, 2, 3} THEN conns - 1 ELSE conns
    /\ pc = "accept" =>
          /\ open = 0
          /\ conns > 0 => ops = HandlingOrder

C6_Witness ==
    /\ pc = "accept"
    /\ conns = 2
    /\ ops = HandlingOrder
    /\ open = 0
    /\ Len(served) = 2

\* the signal came after both handlers were installed
SignalledAfterInstall ==
    /\ signalled # "none"
    /\ sigAt \notin {"args", "sigterm", "sigint"}

\* C7: SIGINT or SIGTERM delivered at any point after the handlers are
\* installed makes the process print a shutdown line with its process
\* identifier and exit with status 0; from then on no connection is
\* accepted and no response is sent.
C7_SignalExitsWithZero ==
    /\ [](SignalledAfterInstall =>
             /\ pc = "exited"
             /\ exitStatus = 0
             /\ log # <<>>
             /\ log[Len(log)] = [kind |-> "shutdown", pid |-> pid])
    /\ [][SignalledAfterInstall => UNCHANGED <<conns, served, sent, open>>]_vars

C7_Witness ==
    /\ signalled = "SIGINT"
    /\ sigAt = "recv"
    /\ pc = "exited"
    /\ exitStatus = 0
    /\ log[Len(log)] = [kind |-> "shutdown", pid |-> pid]

\* C9: a failed accept changes nothing but the count of failures: no recv,
\* send or close, no exit, and main is at accept again, in the state it was
\* in before the failure.
C9_FailedAcceptAbsorbed ==
    [][nfail' # nfail =>
          /\ pc = "accept"
          /\ pc' = "accept"
          /\ UNCHANGED <<prog, pid, handlers, exitStatus, signalled, sigAt, log,
                         rng, randCalls, conns, open, ops, arriving, rx, buffer,
                         query, rdHi, wrHi, token, body, sent, served>>]_vars

C9_Witness ==
    /\ nfail = 2
    /\ conns = 1
    /\ Responded
    /\ rx = HELLO_REQUEST
    /\ pc = "accept"
    /\ exitStatus = -1

\* the value a connection's bytes determine
ValueOf(data) ==
    IF HasMarker(Text(data), Marker(prog))
    THEN ValueIn(Text(data), Marker(prog))
    ELSE DefaultOf(prog)

\* C10: whatever connections came before, the value of a response is
\* determined by the bytes received on its own connection: a connection
\* without a marker, or without data, gets the default.
C10_NothingSurvivesAConnection ==
    /\ Extracted => CStr(query) = ValueOf(rx)
    /\ Responded =>
          /\ served[Len(served)] = ValueOf(rx)
          /\ EmbedsValue(sent, ValueOf(rx))
    /\ (Responded /\ rx = <<>>) => EmbedsValue(sent, DefaultOf(prog))

C10_Witness ==
    /\ Len(served) = 2
    /\ served[1] \notin {DEFAULT_Q, DEFAULT_USER}
    /\ Responded
    /\ rx = <<>>
    /\ served[2] = DefaultOf(prog)
    /\ EmbedsValue(sent, DefaultOf(prog))

====
